---- MODULE Spec2Model ----
(***************************************************************************)
(* A model of parse_and_analyze_stats.py: the aggregation of per-team      *)
(* game logs into per-player state (parse_all_team_files), the two pure    *)
(* statistics (percentile, lower_semideviation) and the report built,      *)
(* printed and exported by main.                                           *)
(*                                                                         *)
(* Texts that the program parses (file names, PTS, GAME DATE) are tuples   *)
(* of one-character strings; texts it only tests for emptiness or copies   *)
(* (PLAYER, TEAM) are strings.  A Python optional is <<>> (None) or <<x>>. *)
(* A float is a record [cls, num, den, rt]: cls is "fin", "nan", "inf" or  *)
(* "ninf"; a finite value is num/den in lowest terms when rt is FALSE and  *)
(* sign(num) * sqrt(|num|/den) when rt is TRUE (an irrational result of    *)
(* math.sqrt, kept exact).  Rounding error and overflow of the binary      *)
(* floats are not modelled.                                                *)
(***************************************************************************)
EXTENDS Integers, Sequences, FiniteSets, TLC

VARIABLES directory, pc, fidx, ridx, opened, player_data,
          results, cidx, console, row, worksheet,
          fn_list, fn_pct, fn_ret, fn_pc

vars == <<directory, pc, fidx, ridx, opened, player_data,
          results, cidx, console, row, worksheet,
          fn_list, fn_pct, fn_ret, fn_pc>>

(***************************************************************************)
(* Bounds of the model.                                                    *)
(***************************************************************************)
MaxFiles == 2
MaxRecords == 3
MaxGames == 5
MaxLen == 4

(***************************************************************************)
(* Floats.                                                                 *)
(***************************************************************************)
Abs(n) == IF n < 0 THEN -n ELSE n

Sign(n) == IF n < 0 THEN -1 ELSE IF n = 0 THEN 0 ELSE 1

RECURSIVE GCD(_, _)
GCD(a, b) == IF b = 0 THEN a ELSE GCD(b, a % b)

Fin(n, d) ==
    LET g == GCD(Abs(n), d)
    IN  [cls |-> "fin", num |-> n \div g, den |-> d \div g, rt |-> FALSE]

NaN == [cls |-> "nan", num |-> 0, den |-> 1, rt |-> FALSE]
Inf == [cls |-> "inf", num |-> 0, den |-> 1, rt |-> FALSE]
NInf == [cls |-> "ninf", num |-> 0, den |-> 1, rt |-> FALSE]
Zero == Fin(0, 1)

IsFinite(x) == x.cls = "fin"

\* The sign of a float that is not a nan.
FSign(x) ==
    IF x.cls = "inf" THEN 1 ELSE IF x.cls = "ninf" THEN -1 ELSE Sign(x.num)

Signed(s) == IF s > 0 THEN Inf ELSE NInf

FNeg(x) ==
    CASE x.cls = "inf" -> NInf
      [] x.cls = "ninf" -> Inf
      [] x.cls = "nan" -> NaN
      [] OTHER -> [x EXCEPT !.num = -x.num]

FAdd(a, b) ==
    CASE a.cls = "nan" \/ b.cls = "nan" -> NaN
      [] a.cls = "fin" /\ b.cls = "fin" ->
            Fin(a.num * b.den + b.num * a.den, a.den * b.den)
      [] a.cls = "fin" -> b
      [] b.cls = "fin" -> a
      [] a.cls = b.cls -> a
      [] OTHER -> NaN

FSub(a, b) == FAdd(a, FNeg(b))

FMul(a, b) ==
    CASE a.cls = "nan" \/ b.cls = "nan" -> NaN
      [] a.cls = "fin" /\ b.cls = "fin" -> Fin(a.num * b.num, a.den * b.den)
      [] FSign(a) * FSign(b) = 0 -> NaN
      [] OTHER -> Signed(FSign(a) * FSign(b))

IsSquare(n) == \E k \in 0..n : k * k = n

ISqrt(n) == CHOOSE k \in 0..n : k * k = n

\* a / b for b # 0 (every division of the program is by a length >= 1 or
\* guarded by abs(b) > 1e-9); a may be a square root, b is not.
FDiv(a, b) ==
    CASE a.cls = "nan" \/ b.cls = "nan" -> NaN
      [] a.cls = "fin" /\ b.cls = "fin" ->
            IF a.rt
            THEN LET n == a.num * b.den * b.den
                     d == a.den * b.num * b.num
                     g == GCD(Abs(n), d)
                 IN  IF n = 0 THEN Zero
                     ELSE [cls |-> "fin", num |-> Sign(b.num) * (n \div g),
                           den |-> d \div g, rt |-> TRUE]
            ELSE Fin(Sign(b.num) * a.num * b.den, a.den * Abs(b.num))
      [] a.cls = "fin" -> Zero
      [] b.cls = "fin" -> Signed(FSign(a) * FSign(b))
      [] OTHER -> NaN

\* x ** 2 of a float that is not a square root.
FPow2(x) ==
    CASE x.cls = "nan" -> NaN
      [] x.cls = "fin" -> Fin(x.num * x.num, x.den * x.den)
      [] OTHER -> Inf

\* math.sqrt of a float >= 0 (a mean of squares): rational when the value
\* is a perfect square, the exact root otherwise.
MathSqrt(x) ==
    CASE x.cls = "nan" -> NaN
      [] x.cls = "inf" -> Inf
      [] x.cls = "fin" /\ IsSquare(x.num) /\ IsSquare(x.den) ->
            Fin(ISqrt(x.num), ISqrt(x.den))
      [] OTHER -> [x EXCEPT !.rt = TRUE]

\* sign(x) * x^2 of a finite float as the pair <<numerator, denominator>>:
\* an order-preserving image on which square roots and rationals compare.
SgnSq(x) ==
    IF x.rt THEN <<x.num, x.den>>
    ELSE <<Sign(x.num) * x.num * x.num, x.den * x.den>>

\* a < b; every comparison with a nan is False.
FLess(a, b) ==
    CASE a.cls = "nan" \/ b.cls = "nan" -> FALSE
      [] a.cls = "fin" /\ b.cls = "fin" ->
            SgnSq(a)[1] * SgnSq(b)[2] < SgnSq(b)[1] * SgnSq(a)[2]
      [] a.cls = b.cls -> FALSE
      [] OTHER -> a.cls = "ninf" \/ b.cls = "inf"

Billion == 1000000000

\* abs(x) > 1e-9 for a float that is not a square root.
AbsAboveEps(x) ==
    CASE x.cls = "nan" -> FALSE
      [] x.cls = "fin" ->
            x.num # 0 /\ (x.den \div Abs(x.num)) < Billion
      [] OTHER -> TRUE

\* Rounding to one decimal (format spec .1f and round(x, 1)): the nearest
\* tenth, a tie going to the even tenth; a non-finite float is unchanged.
Round1(x) ==
    IF x.cls # "fin" THEN x
    ELSE IF x.rt
    THEN LET n == Abs(x.num)
             t == CHOOSE k \in 0..(10 * n + 1) :
                     /\ (2 * k - 1) * (2 * k - 1) * x.den <= 400 * n
                     /\ 400 * n < (2 * k + 1) * (2 * k + 1) * x.den
         IN  Fin(Sign(x.num) * t, 10)
    ELSE LET n == Abs(x.num)
             q == (10 * n) \div x.den
             r == (10 * n) % x.den
             t == IF 2 * r < x.den THEN q
                  ELSE IF 2 * r > x.den THEN q + 1
                  ELSE IF q % 2 = 0 THEN q ELSE q + 1
         IN  Fin(Sign(x.num) * t, 10)

RECURSIVE FSum(_)
\* sum(seq): the left fold of + from 0.
FSum(seq) ==
    IF seq = <<>> THEN Zero
    ELSE FAdd(FSum(SubSeq(seq, 1, Len(seq) - 1)), seq[Len(seq)])

RECURSIVE InsertByKey(_, _)
\* The pair x = <<key, item>> put into the sequence s of pairs, sorted by
\* key, before its first pair whose key x's key is less than, so after every
\* pair it ties with.
InsertByKey(s, x) ==
    IF s = <<>> THEN <<x>>
    ELSE IF FLess(x[1], s[1][1]) THEN <<x>> \o s
    ELSE <<s[1]>> \o InsertByKey(Tail(s), x)

RECURSIVE SortPairs(_)
\* A stable ascending sort of <<key, item>> pairs deciding by < on the keys
\* alone, as list.sort and sorted do.
SortPairs(s) ==
    IF s = <<>> THEN <<>>
    ELSE InsertByKey(SortPairs(SubSeq(s, 1, Len(s) - 1)), s[Len(s)])

\* sorted(pts_list), line 125.
Sorted(pts_list) ==
    LET pairs == SortPairs([i \in 1..Len(pts_list) |->
                               <<pts_list[i], pts_list[i]>>])
    IN  [i \in 1..Len(pts_list) |-> pairs[i][2]]

(***************************************************************************)
(* percentile(sorted_list, pct), lines 65-86.                              *)
(***************************************************************************)
Floor(x) == x.num \div x.den

Ceil(x) == -((-x.num) \div x.den)

PercentileAlwaysLower(sorted_list, pct) ==
    LET n == Len(sorted_list)
        index == FMul(Fin(n - 1, 1), pct)
    IN  IF n = 0 THEN <<>> ELSE <<sorted_list[Floor(index) + 1]>>

percentile(sorted_list, pct) ==
    LET n == Len(sorted_list)
        index == FMul(Fin(n - 1, 1), pct)
        lower_idx == Floor(index)
        upper_idx == Ceil(index)
        lower_val == sorted_list[lower_idx + 1]
        upper_val == sorted_list[upper_idx + 1]
        frac == FSub(index, Fin(lower_idx, 1))
    IN  IF n = 0 THEN <<>>
        ELSE IF n = 1 THEN <<sorted_list[1]>>
        ELSE IF lower_idx = upper_idx THEN <<sorted_list[lower_idx + 1]>>
        ELSE <<FAdd(lower_val, FMul(FSub(upper_val, lower_val), frac))>>

(***************************************************************************)
(* lower_semideviation(points), lines 88-106.                              *)
(***************************************************************************)
SemideviationSampleDivisor(points) ==
    LET n == Len(points)
        mu == FDiv(FSum(points), Fin(n, 1))
        below_mean == SelectSeq(points, LAMBDA p : FLess(p, mu))
        squared_diffs == [i \in 1..Len(below_mean) |->
                             FPow2(FSub(mu, below_mean[i]))]
    IN  IF points = <<>> THEN Zero
        ELSE IF Len(below_mean) <= 1 THEN Zero
        ELSE MathSqrt(FDiv(FSum(squared_diffs), Fin(Len(below_mean) - 1, 1)))

lower_semideviation(points) ==
    LET n == Len(points)
        mu == FDiv(FSum(points), Fin(n, 1))
        below_mean == SelectSeq(points, LAMBDA p : FLess(p, mu))
        squared_diffs == [i \in 1..Len(below_mean) |->
                             FPow2(FSub(mu, below_mean[i]))]
        semivariance == FDiv(FSum(squared_diffs), Fin(Len(below_mean), 1))
    IN  IF points = <<>> THEN Zero
        ELSE IF Len(below_mean) <= 1 THEN Zero
        ELSE MathSqrt(semivariance)

(***************************************************************************)
(* Texts and their parsing.                                                *)
(***************************************************************************)
EndsWith(s, suffix) ==
    /\ Len(s) >= Len(suffix)
    /\ SubSeq(s, Len(s) - Len(suffix) + 1, Len(s)) = suffix

TxtSuffix == <<".", "t", "x", "t">>

\* A mutant of the file filter: the suffix test without the length test.
IsTeamFileAnyLength(filename) == EndsWith(filename, TxtSuffix)

\* Line 29: filename.endswith(".txt") and len(filename) == 7.
IsTeamFile(filename) == EndsWith(filename, TxtSuffix) /\ Len(filename) = 7

\* Python's truth test of row.get(column): None and the empty text are false.
\* FalsyStr is for a text kept as a string, FalsyChars for a tuple of
\* characters.
FalsyStr(opt) == opt = <<>> \/ opt[1] = ""

FalsyChars(opt) == opt = <<>> \/ opt[1] = <<>>

Digits == {"0", "1", "2", "3", "4", "5", "6", "7", "8", "9"}

DigitVal(c) ==
    CASE c = "0" -> 0 [] c = "1" -> 1 [] c = "2" -> 2 [] c = "3" -> 3
      [] c = "4" -> 4 [] c = "5" -> 5 [] c = "6" -> 6 [] c = "7" -> 7
      [] c = "8" -> 8 [] c = "9" -> 9

AllDigits(s) == \A i \in 1..Len(s) : s[i] \in Digits

RECURSIVE DigitsVal(_)
DigitsVal(s) ==
    IF s = <<>> THEN 0
    ELSE 10 * DigitsVal(SubSeq(s, 1, Len(s) - 1)) + DigitVal(s[Len(s)])

RECURSIVE Pow10(_)
Pow10(n) == IF n = 0 THEN 1 ELSE 10 * Pow10(n - 1)

RECURSIVE Strip(_)
\* The text without its leading and trailing blanks.
Strip(s) ==
    IF s = <<>> THEN s
    ELSE IF s[1] = " " THEN Strip(Tail(s))
    ELSE IF s[Len(s)] = " " THEN Strip(SubSeq(s, 1, Len(s) - 1))
    ELSE s

LowerChar(c) ==
    CASE c = "N" -> "n" [] c = "A" -> "a" [] c = "I" -> "i" [] c = "F" -> "f"
      [] c = "T" -> "t" [] c = "Y" -> "y" [] OTHER -> c

Lower(s) == [i \in 1..Len(s) |-> LowerChar(s[i])]

\* The places of the character c in s.
Places(s, c) == {i \in 1..Len(s) : s[i] = c}

\* float(text), line 44: <<x>> for the float read, <<>> for ValueError.  The
\* grammar covered: blanks around, a sign, then nan, inf or infinity in any
\* case, or decimal digits with at most one point.  Exponents and
\* underscores are not among the texts the model draws.
FloatParse(text) ==
    LET stripped == Strip(text)
        signed == stripped # <<>> /\ stripped[1] \in {"+", "-"}
        negative == signed /\ stripped[1] = "-"
        body == IF signed THEN Tail(stripped) ELSE stripped
        word == Lower(body)
        dots == Places(body, ".")
        dot == IF dots = {} THEN Len(body) + 1 ELSE CHOOSE i \in dots : TRUE
        whole == SubSeq(body, 1, dot - 1)
        frac == SubSeq(body, dot + 1, Len(body))
        magnitude == Fin(DigitsVal(whole \o frac), Pow10(Len(frac)))
    IN  IF word = <<"n", "a", "n">> THEN <<NaN>>
        ELSE IF word \in {<<"i", "n", "f">>,
                          <<"i", "n", "f", "i", "n", "i", "t", "y">>}
        THEN <<IF negative THEN NInf ELSE Inf>>
        ELSE IF /\ Cardinality(dots) <= 1
                /\ AllDigits(whole) /\ AllDigits(frac)
                /\ Len(whole) + Len(frac) >= 1
        THEN <<IF negative THEN FNeg(magnitude) ELSE magnitude>>
        ELSE <<>>

RECURSIVE Split(_, _)
\* text.split(sep) for a one-character separator.
Split(text, sep) ==
    LET at == Places(text, sep)
        first == CHOOSE i \in at : \A j \in at : i <= j
    IN  IF at = {} THEN <<text>>
        ELSE <<SubSeq(text, 1, first - 1)>>
                 \o Split(SubSeq(text, first + 1, Len(text)), sep)

IsLeapYear(y) == y % 4 = 0 /\ (y % 100 # 0 \/ y % 400 = 0)

DaysInMonth(y, m) ==
    CASE m \in {4, 6, 9, 11} -> 30
      [] m = 2 -> IF IsLeapYear(y) THEN 29 ELSE 28
      [] OTHER -> 31

\* A mutant of strptime: the month and the day are not checked for range.
DateParseUnranged(text) ==
    LET parts == Split(text, "/")
    IN  IF /\ Len(parts) = 3
           /\ \A i \in 1..3 : AllDigits(parts[i])
           /\ Len(parts[1]) \in {1, 2}
           /\ Len(parts[2]) \in {1, 2}
           /\ Len(parts[3]) = 4
        THEN <<<<DigitsVal(parts[3]), DigitsVal(parts[1]), DigitsVal(parts[2])>>>>
        ELSE <<>>

\* datetime.strptime(text, "%m/%d/%Y"), line 50: <<date>> with date the
\* tuple <<year, month, day>>, or <<>> for ValueError.  %m is one or two
\* digits naming 1..12, %d one or two digits naming a day of that month,
\* %Y exactly four digits naming a year >= 1.  (A day written with a leading
\* blank, which %d also takes, is not among the texts the model draws.)
DateParse(text) ==
    LET parts == Split(text, "/")
        m == DigitsVal(parts[1])
        d == DigitsVal(parts[2])
        y == DigitsVal(parts[3])
    IN  IF /\ Len(parts) = 3
           /\ \A i \in 1..3 : AllDigits(parts[i])
           /\ Len(parts[1]) \in {1, 2} /\ m \in 1..12
           /\ Len(parts[2]) \in {1, 2} /\ d >= 1
           /\ Len(parts[3]) = 4 /\ y >= 1
           /\ d <= DaysInMonth(y, m)
        THEN <<<<y, m, d>>>>
        ELSE <<>>

\* a < b for two datetimes.
DateLess(a, b) ==
    \/ a[1] < b[1]
    \/ a[1] = b[1] /\ a[2] < b[2]
    \/ a[1] = b[1] /\ a[2] = b[2] /\ a[3] < b[3]

(***************************************************************************)
(* parse_all_team_files, lines 11-63.  The dict player_data is the record  *)
(* [keys, val]: keys is the insertion order of its keys, val the mapping.  *)
(***************************************************************************)
EmptyDict == [keys |-> <<>>, val |-> <<>>]

\* Lines 21-25: what the defaultdict makes for a missing key.
DefaultEntry ==
    [points |-> <<>>, most_recent_date |-> <<>>, current_team |-> <<>>]

\* player_data[player_name]: a missing key is inserted with the default.
GetOrCreate(pd, player_name) ==
    IF player_name \in DOMAIN pd.val THEN pd
    ELSE [keys |-> Append(pd.keys, player_name),
          val |-> (player_name :> DefaultEntry) @@ pd.val]

\* A mutant of the fold: a game of the same date replaces the stored team.
AddGameLatestWins(pd, player_name, points, game_date, team_str) ==
    LET d == GetOrCreate(pd, player_name)
        appended == [d.val[player_name] EXCEPT !.points = Append(@, points)]
        current_recent == appended.most_recent_date
    IN  [d EXCEPT !.val[player_name] =
            IF current_recent = <<>> \/ ~DateLess(game_date, current_recent[1])
            THEN [appended EXCEPT !.most_recent_date = <<game_date>>,
                                  !.current_team = <<team_str>>]
            ELSE appended]

\* A mutant of the fold: the points are kept only for a newer game.
AddGameOnlyNewer(pd, player_name, points, game_date, team_str) ==
    LET d == GetOrCreate(pd, player_name)
        entry == d.val[player_name]
        current_recent == entry.most_recent_date
    IN  [d EXCEPT !.val[player_name] =
            IF current_recent = <<>> \/ DateLess(current_recent[1], game_date)
            THEN [points |-> Append(entry.points, points),
                  most_recent_date |-> <<game_date>>,
                  current_team |-> <<team_str>>]
            ELSE entry]

\* Lines 54-61: the game is appended to the player's points, and replaces
\* the stored date and team when its date is strictly later (or none is
\* stored).
AddGame(pd, player_name, points, game_date, team_str) ==
    LET d == GetOrCreate(pd, player_name)
        appended == [d.val[player_name] EXCEPT !.points = Append(@, points)]
        current_recent == appended.most_recent_date
    IN  [d EXCEPT !.val[player_name] =
            IF current_recent = <<>> \/ DateLess(current_recent[1], game_date)
            THEN [appended EXCEPT !.most_recent_date = <<game_date>>,
                                  !.current_team = <<team_str>>]
            ELSE appended]

\* A mutant of the row loop: the player's entry is looked up before the row
\* is validated, so the defaultdict makes it for a row that is then skipped.
ProcessRowEagerLookup(pd, r) ==
    LET touched == IF FalsyStr(r.PLAYER) THEN pd
                   ELSE GetOrCreate(pd, r.PLAYER[1])
    IN  IF \/ FalsyStr(r.PLAYER) \/ FalsyChars(r.PTS)
           \/ FalsyChars(r.GAME_DATE) \/ FalsyStr(r.TEAM)
        THEN touched
        ELSE IF FloatParse(r.PTS[1]) = <<>> THEN touched
        ELSE IF DateParse(r.GAME_DATE[1]) = <<>> THEN touched
        ELSE AddGame(pd, r.PLAYER[1], FloatParse(r.PTS[1])[1],
                     DateParse(r.GAME_DATE[1])[1], r.TEAM[1])

\* Lines 34-61, the body of the row loop: the dict after the row r, a record
\* of the four columns read with row.get (<<>> for a column the row lacks).
ProcessRow(pd, r) ==
    IF \/ FalsyStr(r.PLAYER) \/ FalsyChars(r.PTS)
       \/ FalsyChars(r.GAME_DATE) \/ FalsyStr(r.TEAM)
    THEN pd
    ELSE IF FloatParse(r.PTS[1]) = <<>> THEN pd
    ELSE IF DateParse(r.GAME_DATE[1]) = <<>> THEN pd
    ELSE AddGame(pd, r.PLAYER[1], FloatParse(r.PTS[1])[1],
                 DateParse(r.GAME_DATE[1])[1], r.TEAM[1])

RECURSIVE ProcessRows(_, _)
\* Lines 33-61: the row loop over one file.
ProcessRows(pd, rows) ==
    IF rows = <<>> THEN pd
    ELSE ProcessRow(ProcessRows(pd, SubSeq(rows, 1, Len(rows) - 1)),
                    rows[Len(rows)])

RECURSIVE ParseAllTeamFiles(_)
\* Lines 21-63 as a function of the listing os.listdir returned.
ParseAllTeamFiles(listing) ==
    IF listing = <<>> THEN EmptyDict
    ELSE LET before == ParseAllTeamFiles(SubSeq(listing, 1, Len(listing) - 1))
             entry == listing[Len(listing)]
         IN  IF IsTeamFile(entry.name) THEN ProcessRows(before, entry.rows)
             ELSE before

(***************************************************************************)
(* main, lines 108-171.                                                    *)
(***************************************************************************)
\* Lines 114-130: the tuple appended for one player with games.
StatRow(player, info) ==
    LET pts_list == info.points
        games_played == Len(pts_list)
        mean_pts == FDiv(FSum(pts_list), Fin(games_played, 1))
        std_dev == lower_semideviation(pts_list)
        sorted_pts == Sorted(pts_list)
    IN  [player |-> player,
         team |-> info.current_team,
         mean_pts |-> mean_pts,
         std_dev |-> std_dev,
         cv |-> IF AbsAboveEps(mean_pts) THEN FDiv(std_dev, mean_pts) ELSE Zero,
         p10 |-> percentile(sorted_pts, Fin(1, 10)),
         p20 |-> percentile(sorted_pts, Fin(2, 10)),
         p30 |-> percentile(sorted_pts, Fin(3, 10)),
         games_played |-> games_played]

RECURSIVE StatRows(_, _)
\* Lines 112-130: one tuple per key of the dict, in its order, a player
\* without games skipped.
StatRows(pd, keys) ==
    IF keys = <<>> THEN <<>>
    ELSE LET before == StatRows(pd, SubSeq(keys, 1, Len(keys) - 1))
             player == keys[Len(keys)]
         IN  IF Len(pd.val[player].points) = 0 THEN before
             ELSE Append(before, StatRow(player, pd.val[player]))

\* A mutant of the sort: the rows are left in the dict's order.
SortResultsNot(rows) == rows

\* Line 133: results.sort(key=lambda x: x[3]).
SortResults(rows) ==
    LET pairs == SortPairs([i \in 1..Len(rows) |-> <<rows[i].std_dev, rows[i]>>])
    IN  [i \in 1..Len(rows) |-> pairs[i][2]]

ConsoleHeader ==
    <<"Player", "Team", "PPG", "StdDev", "CV", "P10", "P20", "P30", "Games">>

ConsoleRule == <<"------------------------------------------------------------------------------------------">>

SheetHeaders ==
    <<"Player", "Current Team", "PPG", "Std Dev", "CV", "10th Pctl",
      "20th Pctl", "30th Pctl", "Games">>

\* Lines 139-147: the fields of one printed line.  The format specs 5s and
\* 5.1f raise TypeError for None.
CanFormat(r) == r.team # <<>> /\ r.p10 # <<>> /\ r.p20 # <<>> /\ r.p30 # <<>>

ConsoleLine(r) ==
    <<r.player, r.team[1], Round1(r.mean_pts), Round1(r.std_dev), Round1(r.cv),
      Round1(r.p10[1]), Round1(r.p20[1]), Round1(r.p30[1]), r.games_played>>

RoundOrNone(opt) == IF opt = <<>> THEN <<>> ELSE <<Round1(opt[1])>>

\* Lines 159-167: the nine cells of one sheet row; an optional stays one.
SheetCells(r) ==
    <<r.player, r.team, Round1(r.mean_pts), Round1(r.std_dev), Round1(r.cv),
      RoundOrNone(r.p10), RoundOrNone(r.p20), RoundOrNone(r.p30),
      r.games_played>>

ReportUnchanged == UNCHANGED <<results, cidx, console, row, worksheet>>

FnUnchanged == UNCHANGED <<fn_list, fn_pct, fn_ret, fn_pc>>

\* Line 29 false: the entry is passed over.
SkipEntry ==
    /\ pc = "listdir"
    /\ fidx <= Len(directory)
    /\ ~IsTeamFile(directory[fidx].name)
    /\ fidx' = fidx + 1
    /\ UNCHANGED <<directory, pc, ridx, opened, player_data>>
    /\ ReportUnchanged /\ FnUnchanged

\* Lines 29-32: the entry is opened and a reader made over its rows.
OpenFile ==
    /\ pc = "listdir"
    /\ fidx <= Len(directory)
    /\ IsTeamFile(directory[fidx].name)
    /\ opened' = Append(opened, directory[fidx].name)
    /\ ridx' = 1
    /\ pc' = "reader"
    /\ UNCHANGED <<directory, fidx, player_data>>
    /\ ReportUnchanged /\ FnUnchanged

\* Lines 33-61: one turn of the row loop.
ReadRow ==
    /\ pc = "reader"
    /\ ridx <= Len(directory[fidx].rows)
    /\ player_data' = ProcessRow(player_data, directory[fidx].rows[ridx])
    /\ ridx' = ridx + 1
    /\ UNCHANGED <<directory, pc, fidx, opened>>
    /\ ReportUnchanged /\ FnUnchanged

\* The reader is exhausted: the with block ends, the file loop goes on.
CloseFile ==
    /\ pc = "reader"
    /\ ridx > Len(directory[fidx].rows)
    /\ fidx' = fidx + 1
    /\ pc' = "listdir"
    /\ UNCHANGED <<directory, ridx, opened, player_data>>
    /\ ReportUnchanged /\ FnUnchanged

\* Line 63 and line 110: the listing is exhausted, the dict goes to main.
ReturnData ==
    /\ pc = "listdir"
    /\ fidx > Len(directory)
    /\ pc' = "report"
    /\ UNCHANGED <<directory, fidx, ridx, opened, player_data>>
    /\ ReportUnchanged /\ FnUnchanged

\* Lines 112-137: the rows are built and sorted, the table head printed.
BuildReport ==
    /\ pc = "report"
    /\ results' = SortResults(StatRows(player_data, player_data.keys))
    /\ console' = <<ConsoleHeader, ConsoleRule>>
    /\ cidx' = 1
    /\ pc' = "print"
    /\ UNCHANGED <<directory, fidx, ridx, opened, player_data, row, worksheet>>
    /\ FnUnchanged

\* Lines 138-147: one line printed, or TypeError for a None field.
PrintRow ==
    /\ pc = "print"
    /\ cidx <= Len(results)
    /\ IF CanFormat(results[cidx])
       THEN /\ console' = Append(console, ConsoleLine(results[cidx]))
            /\ cidx' = cidx + 1
            /\ pc' = pc
       ELSE /\ pc' = "crash"
            /\ UNCHANGED <<console, cidx>>
    /\ UNCHANGED <<directory, fidx, ridx, opened, player_data, results, row,
                   worksheet>>
    /\ FnUnchanged

\* Lines 150-157: the workbook is made and its header row written.
OpenWorkbook ==
    /\ pc = "print"
    /\ cidx > Len(results)
    /\ worksheet' = (0 :> SheetHeaders)
    /\ row' = 1
    /\ pc' = "export"
    /\ UNCHANGED <<directory, fidx, ridx, opened, player_data, results, cidx,
                   console>>
    /\ FnUnchanged

\* Lines 158-168: one row of the sheet written.
WriteSheetRow ==
    /\ pc = "export"
    /\ row <= Len(results)
    /\ worksheet' = (row :> SheetCells(results[row])) @@ worksheet
    /\ row' = row + 1
    /\ UNCHANGED <<directory, pc, fidx, ridx, opened, player_data, results,
                   cidx, console>>
    /\ FnUnchanged

\* Lines 170-171: the workbook is closed and the last line printed.
CloseWorkbook ==
    /\ pc = "export"
    /\ row > Len(results)
    /\ console' = Append(console, <<"Data exported to player_stats.xlsx">>)
    /\ pc' = "done"
    /\ UNCHANGED <<directory, fidx, ridx, opened, player_data, results, cidx,
                   row, worksheet>>
    /\ FnUnchanged

NextReport ==
    \/ BuildReport
    \/ PrintRow
    \/ OpenWorkbook
    \/ WriteSheetRow
    \/ CloseWorkbook

Next ==
    \/ SkipEntry
    \/ OpenFile
    \/ ReadRow
    \/ CloseFile
    \/ ReturnData
    \/ NextReport

SeqsUpTo(S, n) == UNION {[1..k -> S] : k \in 0..n}

\* The variables of a lone function call, unused by main.
FnIdle ==
    /\ fn_list = <<>>
    /\ fn_pct = Zero
    /\ fn_ret = <<>>
    /\ fn_pc = "idle"

(***************************************************************************)
(* The inputs: directory listings of game-log files.  An entry of a        *)
(* listing is [name, rows]; the listing's order is the order os.listdir    *)
(* returned, which is any order.                                           *)
(***************************************************************************)
ATL_txt == <<"A", "T", "L", ".", "t", "x", "t">>
N13_txt == <<"1", "_", "3", ".", "t", "x", "t">>
ATLX_txt == <<"A", "T", "L", "X", ".", "t", "x", "t">>
AT_txt == <<"A", "T", ".", "t", "x", "t">>
ATL_csv == <<"A", "T", "L", ".", "c", "s", "v">>

\* The names that are three characters and ".txt", and the others.
TeamNames == {ATL_txt, N13_txt}
StrayNames == {ATLX_txt, AT_txt, ATL_csv}

Jan01 == <<"0", "1", "/", "0", "1", "/", "2", "0", "2", "4">>
Jan05 == <<"0", "1", "/", "0", "5", "/", "2", "0", "2", "4">>
Jan05Short == <<"1", "/", "5", "/", "2", "0", "2", "4">>
Jan09 == <<"0", "1", "/", "0", "9", "/", "2", "0", "2", "4">>

Row(player, pts, date, team) ==
    [PLAYER |-> player, PTS |-> pts, GAME_DATE |-> date, TEAM |-> team]

\* Rows that are game records.
RowP1Jan01 == Row(<<"P1">>, <<<<"5">>>>, <<Jan01>>, <<"A">>)
RowP1Jan05 == Row(<<"P1">>, <<<<"1", "5">>>>, <<Jan05>>, <<"B">>)
RowP1Jan05Tie == Row(<<"P1">>, <<<<"1", "0">>>>, <<Jan05Short>>, <<"A">>)
RowP2Jan05 == Row(<<"P2">>, <<<<"2", "0">>>>, <<Jan05>>, <<"B">>)
RowP2Jan01 == Row(<<"P2">>, <<<<"5">>>>, <<Jan01>>, <<"A">>)
RowP3Jan01 == Row(<<"P3">>, <<<<"5">>>>, <<Jan01>>, <<"A">>)
RowP1Jan01High == Row(<<"P1">>, <<<<"2", "0">>>>, <<Jan01>>, <<"A">>)
RowStray == Row(<<"ZZ">>, <<<<"3", "0">>>>, <<Jan09>>, <<"C">>)

\* Rows whose PTS text float() reads as a float that is no finite number.
RowNan == Row(<<"P1">>, <<<<"n", "a", "n">>>>, <<Jan01>>, <<"A">>)
RowInf == Row(<<"P1">>, <<<<"i", "n", "f">>>>, <<Jan01>>, <<"A">>)
RowNegInf == Row(<<"P2">>, <<<<"-", "I", "n", "f">>>>, <<Jan09>>, <<"B">>)

\* Rows that are no game record, each with the latest date and a team of
\* its own so that taking one for a record would show.
RowNoPlayer == Row(<<>>, <<<<"7">>>>, <<Jan09>>, <<"X">>)
RowEmptyPlayer == Row(<<"">>, <<<<"7">>>>, <<Jan09>>, <<"X">>)
RowNoPts == Row(<<"P1">>, <<>>, <<Jan09>>, <<"X">>)
RowEmptyPts == Row(<<"P1">>, <<<<>>>>, <<Jan09>>, <<"X">>)
RowWordPts == Row(<<"P1">>, <<<<"a", "b", "c">>>>, <<Jan09>>, <<"X">>)
RowCommaPts == Row(<<"P1">>, <<<<"1", ",", "5">>>>, <<Jan09>>, <<"X">>)
RowNoDate == Row(<<"P1">>, <<<<"7">>>>, <<>>, <<"X">>)
RowEmptyDate == Row(<<"P1">>, <<<<"7">>>>, <<<<>>>>, <<"X">>)
RowMonth13 ==
    Row(<<"P1">>, <<<<"7">>>>,
        <<<<"1", "3", "/", "0", "1", "/", "2", "0", "2", "4">>>>, <<"X">>)
RowFeb30 ==
    Row(<<"P1">>, <<<<"7">>>>,
        <<<<"0", "2", "/", "3", "0", "/", "2", "0", "2", "4">>>>, <<"X">>)
RowIsoDate ==
    Row(<<"P1">>, <<<<"7">>>>,
        <<<<"2", "0", "2", "4", "-", "0", "1", "-", "0", "9">>>>, <<"X">>)
RowNoTeam == Row(<<"P1">>, <<<<"7">>>>, <<Jan09>>, <<>>)
RowEmptyTeam == Row(<<"P1">>, <<<<"7">>>>, <<Jan09>>, <<"">>)

InvalidRows ==
    {RowNoPlayer, RowEmptyPlayer, RowNoPts, RowEmptyPts, RowWordPts,
     RowCommaPts, RowNoDate, RowEmptyDate, RowMonth13, RowFeb30, RowIsoDate,
     RowNoTeam, RowEmptyTeam}

\* What a stray entry holds: a game record that shows if the entry is read.
StrayRows == <<RowStray>>

Injective(s) == \A i, j \in 1..Len(s) : i # j => s[i] # s[j]

NameLists(names) == {s \in SeqsUpTo(names, MaxFiles) : Injective(s)}

TeamPlaces(nl) == {i \in 1..Len(nl) : nl[i] \in TeamNames}

\* The ways to cut a sequence of length n into k consecutive chunks: the
\* ends of the first k-1 chunks.
Cuts(k, n) ==
    IF k <= 1 THEN {<<>>}
    ELSE {c \in [1..(k - 1) -> 0..n] : \A j \in 1..(k - 2) : c[j] <= c[j + 1]}

Chunk(t, c, j) ==
    LET from == IF j = 1 THEN 0 ELSE c[j - 1]
        to == IF j > Len(c) THEN Len(t) ELSE c[j]
    IN  SubSeq(t, from + 1, to)

\* The listing with the names nl whose team files hold, in the listing's
\* order, the chunks of the rows t cut at c.
Listing(nl, t, c) ==
    [i \in 1..Len(nl) |->
        [name |-> nl[i],
         rows |-> IF nl[i] \in TeamNames
                  THEN Chunk(t, c, Cardinality({j \in TeamPlaces(nl) : j <= i}))
                  ELSE StrayRows]]

\* The start of main on some listing: at most MaxFiles entries named from
\* names, the team files holding at most n rows of pool between them.
StartOn(names, pool, n) ==
    /\ \E nl \in NameLists(names) :
          \E t \in (IF TeamPlaces(nl) = {} THEN {<<>>} ELSE SeqsUpTo(pool, n)) :
             \E c \in Cuts(Cardinality(TeamPlaces(nl)), Len(t)) :
                directory = Listing(nl, t, c)
    /\ pc = "listdir"
    /\ fidx = 1
    /\ ridx = 1
    /\ opened = <<>>
    /\ player_data = EmptyDict
    /\ results = <<>>
    /\ cidx = 1
    /\ console = <<>>
    /\ row = 0
    /\ worksheet = <<>>
    /\ FnIdle

RowPool ==
    {RowP1Jan01, RowP1Jan05, RowP1Jan05Tie, RowP2Jan05, RowWordPts, RowNan}

Init == StartOn(TeamNames \cup {ATLX_txt}, RowPool, MaxRecords)

Spec == Init /\ [][Next]_vars

\* Every kind of row that is no game record, among game records.
MaxSkipRows == 2

SkipRowPool == InvalidRows \cup {RowP1Jan01, RowP2Jan05, RowNegInf}

InitSkip == StartOn(TeamNames \cup {ATLX_txt}, SkipRowPool, MaxSkipRows)

SpecSkip == InitSkip /\ [][Next]_vars

\* Every kind of name, over few rows.
InitSelect ==
    StartOn(TeamNames \cup StrayNames, {RowP1Jan01, RowP2Jan05}, MaxRecords)

SpecSelect == InitSelect /\ [][Next]_vars

\* main from the return of parse_all_team_files on one file of games.
GamePool ==
    {RowP1Jan01, RowP1Jan01High, RowP2Jan01, RowP3Jan01, RowInf, RowNan}

InitReport ==
    /\ \E t \in SeqsUpTo(GamePool, MaxGames) :
          /\ directory = <<[name |-> ATL_txt, rows |-> t]>>
          /\ player_data = ParseAllTeamFiles(directory)
          /\ ridx = Len(t) + 1
    /\ pc = "report"
    /\ fidx = 2
    /\ opened = <<ATL_txt>>
    /\ results = <<>>
    /\ cidx = 1
    /\ console = <<>>
    /\ row = 0
    /\ worksheet = <<>>
    /\ FnIdle

SpecReport == InitReport /\ [][NextReport]_vars

(***************************************************************************)
(* Claims about the aggregation.  What the rows of the inputs mean is      *)
(* written out here by hand, apart from the parsing above: the game a row  *)
(* records, or none.                                                       *)
(***************************************************************************)
Game(player, points, date, team) ==
    [player |-> player, points |-> points, date |-> date, team |-> team]

\* The game a row records (<<>> for none).  A row whose PTS reads as nan or
\* an infinity counts as the game the program takes it for.
GameOf(r) ==
    CASE r = RowP1Jan01 -> <<Game("P1", Fin(5, 1), <<2024, 1, 1>>, "A")>>
      [] r = RowP1Jan05 -> <<Game("P1", Fin(15, 1), <<2024, 1, 5>>, "B")>>
      [] r = RowP1Jan05Tie -> <<Game("P1", Fin(10, 1), <<2024, 1, 5>>, "A")>>
      [] r = RowP2Jan05 -> <<Game("P2", Fin(20, 1), <<2024, 1, 5>>, "B")>>
      [] r = RowP2Jan01 -> <<Game("P2", Fin(5, 1), <<2024, 1, 1>>, "A")>>
      [] r = RowP3Jan01 -> <<Game("P3", Fin(5, 1), <<2024, 1, 1>>, "A")>>
      [] r = RowP1Jan01High -> <<Game("P1", Fin(20, 1), <<2024, 1, 1>>, "A")>>
      [] r = RowStray -> <<Game("ZZ", Fin(30, 1), <<2024, 1, 9>>, "C")>>
      [] r = RowNan -> <<Game("P1", NaN, <<2024, 1, 1>>, "A")>>
      [] r = RowInf -> <<Game("P1", Inf, <<2024, 1, 1>>, "A")>>
      [] r = RowNegInf -> <<Game("P2", NInf, <<2024, 1, 9>>, "B")>>
      [] OTHER -> <<>>

RECURSIVE GamesOf(_)
\* The games of a sequence of rows, in its order.
GamesOf(rows) ==
    IF rows = <<>> THEN <<>> ELSE GameOf(rows[1]) \o GamesOf(Tail(rows))

RECURSIVE TeamFileRows(_)
\* The rows of the team files of a listing, in its order.
TeamFileRows(listing) ==
    IF listing = <<>> THEN <<>>
    ELSE (IF listing[1].name \in TeamNames THEN listing[1].rows ELSE <<>>)
            \o TeamFileRows(Tail(listing))

\* The rows the run has gone through so far.
RowsRead ==
    TeamFileRows(SubSeq(directory, 1, fidx - 1))
       \o (IF pc = "reader" THEN SubSeq(directory[fidx].rows, 1, ridx - 1)
           ELSE <<>>)

GamesRead == GamesOf(RowsRead)

GamesOfPlayer(games, player) == SelectSeq(games, LAMBDA g : g.player = player)

DayNumber(date) == date[1] * 10000 + date[2] * 100 + date[3]

\* The first game of the non-empty sequence gs that no game of gs is later
\* than.
FirstLatest(gs) ==
    LET latest == {i \in 1..Len(gs) :
                      \A j \in 1..Len(gs) :
                         DayNumber(gs[j].date) <= DayNumber(gs[i].date)}
    IN  gs[CHOOSE i \in latest : \A j \in latest : i <= j]

Parsed == pc \in {"report", "print", "export", "done"}

Reported == pc \in {"print", "export", "done"}

Entries == player_data.val

\* C1: after any sequence of rows, across files, every player of the map has
\* as most_recent_date the latest date among the player's games read so far
\* and as current_team the team of the first-read game of that date (a later
\* game of an equal date never replaces the team).
C1_TeamOfFirstLatestGame ==
    \A p \in DOMAIN Entries :
        LET gs == GamesOfPlayer(GamesRead, p)
        IN  /\ gs # <<>>
            /\ Entries[p].most_recent_date = <<FirstLatest(gs).date>>
            /\ Entries[p].current_team = <<FirstLatest(gs).team>>

\* C1's case: a game of the date stored and another team was read after the
\* stored one, then an older game.
C1_Witness ==
    /\ RowsRead = <<RowP1Jan05, RowP1Jan05Tie, RowP1Jan01>>
    /\ Len(directory) >= 2
    /\ Entries["P1"].current_team = <<"B">>

\* C2: a row that is no game record (PLAYER, PTS, GAME DATE or TEAM missing
\* or empty, PTS no number, GAME DATE no MM/DD/YYYY date) is passed over
\* without error: the step that reads it leaves the whole map as it was and
\* goes on to the next row of the same file.
C2_InvalidRowLeavesMapUnchanged ==
    [][(/\ pc = "reader"
        /\ ridx <= Len(directory[fidx].rows)
        /\ directory[fidx].rows[ridx] \in InvalidRows)
       => (/\ player_data' = player_data
           /\ pc' = "reader"
           /\ fidx' = fidx
           /\ ridx' = ridx + 1)]_vars

\* C2's case: a row that is no game record was read after a game, in the
\* first of two team files, and the run went on to its end.
C2_Witness ==
    /\ pc = "done"
    /\ Len(opened) = 2
    /\ Len(RowsRead) = 2
    /\ GameOf(RowsRead[1]) # <<>>
    /\ RowsRead[2] \in InvalidRows
    /\ directory[1].rows = RowsRead
    /\ DOMAIN Entries # {}

\* C3: the keys of the map are exactly the players with at least one game
\* read, each player's points are the points of the player's games in the
\* order read, one entry per game whether or not its date is newer; so once
\* all files are read the points are those of all the team files' games, and
\* gamesPlayed is their number.
C3_PointsAreTheGamesInOrder ==
    /\ DOMAIN Entries = {GamesRead[i].player : i \in 1..Len(GamesRead)}
    /\ \A p \in DOMAIN Entries :
          LET gs == GamesOfPlayer(GamesRead, p)
          IN  Entries[p].points = [i \in 1..Len(gs) |-> gs[i].points]
    /\ Parsed => RowsRead = TeamFileRows(directory)
    /\ Reported =>
          \A i \in 1..Len(results) :
             results[i].games_played =
                Len(GamesOfPlayer(GamesRead, results[i].player))

\* C3's case: two files read to the end, a player with a game older than
\* the one read before it.
C3_Witness ==
    /\ pc = "done"
    /\ Len(opened) = 2
    /\ RowsRead = <<RowP1Jan05, RowP1Jan01, RowP2Jan05>>
    /\ Len(Entries["P1"].points) = 2

Orders(n) ==
    {f \in [1..n -> 1..n] : \A i, j \in 1..n : i # j => f[i] # f[j]}

Permuted(listing, f) == [i \in 1..Len(listing) |-> listing[f[i]]]

SameBag(s, t) ==
    /\ Len(s) = Len(t)
    /\ \A i \in 1..Len(s) :
          Cardinality({j \in 1..Len(s) : s[j] = s[i]})
             = Cardinality({j \in 1..Len(t) : t[j] = s[i]})

\* The player's latest date is the date of one game only.
LatestOnce(gs) ==
    Cardinality({i \in 1..Len(gs) :
                    DayNumber(gs[i].date) = DayNumber(FirstLatest(gs).date)}) = 1

RangeOf(s) == {s[i] : i \in 1..Len(s)}

\* The part of C4 about the map: in whatever order the same files are
\* listed, each player has the same multiset of points, the same number of
\* games, the same most_recent_date and, when the latest date is the date of
\* one game only, the same current_team.
MapIndependentOfFileOrder ==
    Parsed =>
        \A f \in Orders(Len(directory)) :
            LET other == ParseAllTeamFiles(Permuted(directory, f)).val
            IN  /\ DOMAIN other = DOMAIN Entries
                /\ \A p \in DOMAIN Entries :
                      /\ SameBag(other[p].points, Entries[p].points)
                      /\ other[p].most_recent_date = Entries[p].most_recent_date
                      /\ LatestOnce(GamesOfPlayer(GamesRead, p))
                            => other[p].current_team = Entries[p].current_team

\* C4: the result does not depend on the order in which the files are
\* listed, but for the tie-break: the map is as MapIndependentOfFileOrder
\* says, and so, when no player's latest date is shared by two games, the
\* set of report rows is the same for every order of the same files.
C4_ReportIndependentOfFileOrder ==
    /\ MapIndependentOfFileOrder
    /\ (Reported /\ \A p \in DOMAIN Entries :
                       LatestOnce(GamesOfPlayer(GamesRead, p))) =>
          \A f \in Orders(Len(directory)) :
             LET other == ParseAllTeamFiles(Permuted(directory, f))
             IN  RangeOf(SortResults(StatRows(other, other.keys)))
                    = RangeOf(results)

C9_StoredPointsAreFinite ==
    \A p \in DOMAIN Entries :
        \A i \in 1..Len(Entries[p].points) : IsFinite(Entries[p].points[i])

\* C10: every player of the map has at least one point, a date and a team;
\* so main skips no player, every report row has gamesPlayed >= 1 and a
\* team and percentiles that are not None, and no line fails to format.
C10_EntriesAreNeverEmpty ==
    /\ \A p \in DOMAIN Entries :
          /\ Entries[p].points # <<>>
          /\ Entries[p].most_recent_date # <<>>
          /\ Entries[p].current_team # <<>>
    /\ RangeOf(player_data.keys) = DOMAIN Entries
    /\ pc # "crash"
    /\ Reported =>
          /\ Len(results) = Len(player_data.keys)
          /\ \A i \in 1..Len(results) :
                /\ results[i].games_played >= 1
                /\ results[i].team # <<>>
                /\ results[i].p10 # <<>>
                /\ results[i].p20 # <<>>
                /\ results[i].p30 # <<>>

\* C10's case: a row naming a player was passed over, the player has no
\* other row, and the report of the other players was printed.
C10_Witness ==
    /\ pc = "done"
    /\ \E i \in 1..Len(RowsRead) : RowsRead[i] = RowWordPts
    /\ "P1" \notin DOMAIN Entries
    /\ Len(results) >= 1
    /\ Len(console) = Len(results) + 3

(***************************************************************************)
(* Claims about the report.                                                *)
(***************************************************************************)
\* a <= b for two deviations, neither a nan.
DeviationAtMost(a, b) ==
    \/ b.cls = "inf"
    \/ /\ a.cls = "fin" /\ b.cls = "fin"
       /\ SgnSq(a)[1] * SgnSq(b)[2] <= SgnSq(b)[1] * SgnSq(a)[2]

Place(s, x) == CHOOSE i \in 1..Len(s) : s[i] = x

\* C7: the report has exactly one row per player of the map, its rows are
\* in non-decreasing order of downside deviation with ties in the map's
\* order, and the console and the sheet give the rows in that order (sheet
\* row i holds the i-th row, below the header row 0).
C7_ReportSortedOnePerPlayer ==
    Reported =>
        /\ Len(results) = Len(player_data.keys)
        /\ \A p \in DOMAIN Entries :
              Cardinality({i \in 1..Len(results) : results[i].player = p}) = 1
        /\ \A i \in 1..Len(results) :
              /\ results[i].std_dev.cls \in {"fin", "inf"}
              /\ results[i] = StatRow(results[i].player,
                                      Entries[results[i].player])
        /\ \A i, j \in 1..Len(results) :
              i < j =>
                 /\ DeviationAtMost(results[i].std_dev, results[j].std_dev)
                 /\ results[i].std_dev = results[j].std_dev =>
                       Place(player_data.keys, results[i].player)
                          < Place(player_data.keys, results[j].player)
        /\ Len(console) >= 2 /\ console[1] = ConsoleHeader
        /\ Len(console) = 2 + (cidx - 1) + (IF pc = "done" THEN 1 ELSE 0)
        /\ \A i \in 1..(cidx - 1) : console[i + 2] = ConsoleLine(results[i])
        /\ pc \in {"export", "done"} =>
              /\ cidx = Len(results) + 1
              /\ DOMAIN worksheet = 0..(row - 1)
              /\ worksheet[0] = SheetHeaders
              /\ \A i \in 1..(row - 1) : worksheet[i] = SheetCells(results[i])
        /\ pc = "done" => row = Len(results) + 1

\* C7's case: three players, the first of the map with the greatest
\* deviation and the other two tied, printed and exported.
C7_Witness ==
    /\ pc = "done"
    /\ player_data.keys = <<"P1", "P2", "P3">>
    /\ [i \in 1..Len(results) |-> results[i].player] = <<"P2", "P3", "P1">>
    /\ results[3].std_dev = Fin(5, 1)
    /\ worksheet[3][1] = "P1"
    /\ console[5][1] = "P1"

(***************************************************************************)
(* The two pure functions called on their own: the arguments are drawn at  *)
(* the start, the call is one step.                                        *)
(***************************************************************************)
PipelineIdle ==
    /\ directory = <<>>
    /\ pc = "idle"
    /\ fidx = 1
    /\ ridx = 1
    /\ opened = <<>>
    /\ player_data = EmptyDict
    /\ results = <<>>
    /\ cidx = 1
    /\ console = <<>>
    /\ row = 0
    /\ worksheet = <<>>

PipelineUnchanged ==
    UNCHANGED <<directory, pc, fidx, ridx, opened, player_data,
                results, cidx, console, row, worksheet>>

IsAscending(s) == \A i \in 1..(Len(s) - 1) : ~FLess(s[i + 1], s[i])

PercentileValues == {Fin(10, 1), Fin(20, 1), Fin(30, 1), Fin(40, 1)}

Fractions == {Fin(k, 10) : k \in 0..10}

InitPercentile ==
    /\ PipelineIdle
    /\ fn_list \in {s \in SeqsUpTo(PercentileValues, MaxLen) : IsAscending(s)}
    /\ fn_pct \in Fractions
    /\ fn_ret = <<>>
    /\ fn_pc = "call"

CallPercentile ==
    /\ fn_pc = "call"
    /\ fn_ret' = percentile(fn_list, fn_pct)
    /\ fn_pc' = "returned"
    /\ UNCHANGED <<fn_list, fn_pct>>
    /\ PipelineUnchanged

SpecPercentile == InitPercentile /\ [][CallPercentile]_vars

SemideviationValues == {Fin(5, 1), Fin(10, 1), Fin(15, 1), Fin(20, 1)}

InitSemideviation ==
    /\ PipelineIdle
    /\ fn_list \in SeqsUpTo(SemideviationValues, MaxLen)
    /\ fn_pct = Zero
    /\ fn_ret = Zero
    /\ fn_pc = "call"

CallSemideviation ==
    /\ fn_pc = "call"
    /\ fn_ret' = lower_semideviation(fn_list)
    /\ fn_pc' = "returned"
    /\ UNCHANGED <<fn_list, fn_pct>>
    /\ PipelineUnchanged

SpecSemideviation == InitSemideviation /\ [][CallSemideviation]_vars

(***************************************************************************)
(* Claims about the pure functions.  The expected values are computed in   *)
(* integers from the arguments, not with the float operators above.        *)
(***************************************************************************)
IntOf(x) == x.num

\* C5: percentile(sorted_list, pct) of an ascending list of n elements and
\* pct = k/d in [0,1] returns None when n = 0, the sole element when n = 1,
\* and otherwise, with idx = (n-1)*pct, lo = floor(idx) and hi = ceil(idx)
\* both indices of the list, sorted[lo] when lo = hi and
\* sorted[lo] + (sorted[hi]-sorted[lo])*(idx-lo) when not; [10,20] at 0.5
\* gives 15 and [10,20,30,40] at 0.1 gives 13.
C5_PercentileInterpolates ==
    fn_pc = "returned" =>
        LET n == Len(fn_list)
            k == fn_pct.num
            d == fn_pct.den
            v(i) == IntOf(fn_list[i + 1])
        IN  /\ n = 0 => fn_ret = <<>>
            /\ n = 1 => fn_ret = <<fn_list[1]>>
            /\ n >= 2 =>
                 \E lo, hi \in 0..(n - 1) :
                    /\ lo * d <= (n - 1) * k /\ (n - 1) * k < (lo + 1) * d
                    /\ (hi - 1) * d < (n - 1) * k /\ (n - 1) * k <= hi * d
                    /\ lo <= hi
                    /\ Len(fn_ret) = 1
                    /\ fn_ret[1].cls = "fin" /\ ~fn_ret[1].rt
                    /\ lo = hi => fn_ret[1] = fn_list[lo + 1]
                    /\ lo # hi =>
                         fn_ret[1].num * d =
                            fn_ret[1].den *
                              (v(lo) * d + (v(hi) - v(lo)) * ((n - 1) * k - lo * d))
            /\ (fn_list = <<Fin(10, 1), Fin(20, 1)>> /\ fn_pct = Fin(1, 2))
                 => fn_ret = <<Fin(15, 1)>>
            /\ (fn_list = <<Fin(10, 1), Fin(20, 1), Fin(30, 1), Fin(40, 1)>>
                    /\ fn_pct = Fin(1, 10))
                 => fn_ret = <<Fin(13, 1)>>

\* C5's case: an interpolation between two different neighbours.
C5_Witness ==
    /\ fn_pc = "returned"
    /\ fn_list = <<Fin(10, 1), Fin(20, 1), Fin(30, 1), Fin(40, 1)>>
    /\ fn_pct = Fin(1, 10)
    /\ fn_ret = <<Fin(13, 1)>>

RECURSIVE SumOfInts(_)
SumOfInts(s) == IF s = <<>> THEN 0 ELSE IntOf(s[1]) + SumOfInts(Tail(s))

RECURSIVE SquaredShortfalls(_, _, _)
\* The sum of (total - n*p)^2 over the points p of s with n*p < total, that
\* is n^2 times the sum of (mu - p)^2 over the points below the mean mu.
SquaredShortfalls(s, n, total) ==
    IF s = <<>> THEN 0
    ELSE (IF n * IntOf(s[1]) < total
          THEN (total - n * IntOf(s[1])) * (total - n * IntOf(s[1]))
          ELSE 0) + SquaredShortfalls(Tail(s), n, total)

\* C6: lower_semideviation(points), with mu the mean and B the points
\* strictly below mu, returns 0.0 when points is empty or |B| <= 1 (as for
\* [10,10,10] and [5,15]) and otherwise the square root of the sum of
\* (mu-b)^2 over B divided by |B|; [5,10,15,20] has semivariance 31.25.
C6_SemideviationIsRootMeanSquareBelowMean ==
    fn_pc = "returned" =>
        LET n == Len(fn_list)
            total == SumOfInts(fn_list)
            nB == Cardinality({i \in 1..n : n * IntOf(fn_list[i]) < total})
            sq == SgnSq(fn_ret)
        IN  /\ fn_ret.cls = "fin"
            /\ (n = 0 \/ nB <= 1) => fn_ret = Zero
            /\ (n > 0 /\ nB >= 2) =>
                 /\ sq[1] > 0
                 /\ sq[1] * (n * n * nB) =
                        sq[2] * SquaredShortfalls(fn_list, n, total)
            /\ fn_list = <<Fin(10, 1), Fin(10, 1), Fin(10, 1)>> => fn_ret = Zero
            /\ fn_list = <<Fin(5, 1), Fin(15, 1)>> => fn_ret = Zero
            /\ fn_list = <<Fin(5, 1), Fin(10, 1), Fin(15, 1), Fin(20, 1)>>
                 => fn_ret = [cls |-> "fin", num |-> 125, den |-> 4, rt |-> TRUE]

\* C6's case: two points below the mean, an irrational deviation.
C6_Witness ==
    /\ fn_pc = "returned"
    /\ fn_list = <<Fin(5, 1), Fin(10, 1), Fin(15, 1), Fin(20, 1)>>
    /\ fn_ret = [cls |-> "fin", num |-> 125, den |-> 4, rt |-> TRUE]

====
